---- MODULE Spec2Model ----
(***************************************************************************)
(* orion test framework: the streaming-context consistency tester          *)
(* (src/src/test_framework/stream_interface.rs) and the counter-mode       *)
(* stream-cipher test runner                                               *)
(* (src/src/test_framework/streamcipher_interface.rs).                     *)
(*                                                                         *)
(* The tester's functions are translated from the source.  The primitives  *)
(* they drive (the implementors of DefaultTestableStreamingContext and the *)
(* encryptor/decryptor closures) are not part of the source tree; they are *)
(* modelled from the contract and are marked as such where defined.        *)
(***************************************************************************)
EXTENDS Integers, Sequences, FiniteSets, TLC

VARIABLES
    ctx,    \* the streaming context being driven
    prev,   \* the same context as it was before the last call
    hist,   \* bytes absorbed by ctx since its last init/reset
    parts,  \* lengths of the successful update calls since the last init/reset
    fins,   \* number of successful finalize calls since the last init/reset
    last,   \* the last call: [op, n, ok, val, pre, preop]
    res,    \* result values observed by the last tester function
    call,   \* the last encrypt/decrypt call: its arguments, dst_out before and
            \* after, and its result
    run,    \* the last test function of the cipher test runner: [fn, ok] and
            \* the counter and input it was given
    calc    \* the last overflow prediction of the runner: [made, n, counter,
            \* times, sum]

streamVars == <<ctx, prev, hist, parts, fins, last, res>>

cipherVars == <<call, run, calc>>

vars == <<ctx, prev, hist, parts, fins, last, res, call, run, calc>>

----------------------------------------------------------------------------
(* Bounds *)

\* blocksize handed to StreamingContextConsistencyTester::new
BlockSize == 2
\* most successful update calls in one lifecycle segment of the driven context
MaxUpdates == 3
\* cipher inputs are up to MaxBlocks keystream blocks and one byte long
MaxBlocks == 3

\* the bytes of caller-chosen data
Byte == {0, 1}
\* longest data handed to a test function: one block and a leftover byte
MaxDataLen == BlockSize + 1
\* longest chunk of one update call of the caller
MaxChunk == BlockSize + 1
\* longest history of one lifecycle segment: two blocks and a leftover byte
MaxHist == 2 * BlockSize + 1

SeqsUpTo(n) == UNION {[1..k -> Byte] : k \in 0..n}

Data == SeqsUpTo(MaxDataLen)

Chunks == SeqsUpTo(MaxChunk)

Zeros(n) == [i \in 1..n |-> 0]

----------------------------------------------------------------------------
(* The streaming primitive behind DefaultTestableStreamingContext.         *)
(* A toy block hash with an internal buffer of unprocessed bytes, a        *)
(* running state and the is_finalized flag.                                *)

HashMod == 1000003

IV == 5381

NoValue == -1

RECURSIVE Mix(_, _)
Mix(h, s) ==
    IF s = <<>> THEN h
    ELSE Mix((h * 33 + Head(s) + 1) % HashMod, Tail(s))

\* the block transform: order- and boundary-sensitive
Compress(h, block) == (Mix(h, block) * 7 + 3) % HashMod

\* padding of the leftover bytes to one full block
Pad(buffer) == buffer \o <<128>> \o Zeros(BlockSize - Len(buffer) - 1)

\* the running state after the blocks lo+1..hi of bytes; the state after the
\* first half is computed before the second half is entered
RECURSIVE Blocks(_, _, _, _)
Blocks(h, bytes, lo, hi) ==
    IF hi <= lo THEN h
    ELSE IF hi = lo + 1
    THEN Compress(h, SubSeq(bytes, lo * BlockSize + 1, hi * BlockSize))
    ELSE LET mid == (lo + hi) \div 2
         IN  CHOOSE r \in {Blocks(v, bytes, mid, hi) :
                                v \in {Blocks(h, bytes, lo, mid)}} : TRUE

\* every full block is processed, the remainder is kept
ProcessBlocks(h, bytes) ==
    LET n == Len(bytes) \div BlockSize
    IN  CHOOSE r \in {[state |-> Blocks(hv, bv, 0, n),
                       rest |-> SubSeq(bv, n * BlockSize + 1, Len(bv))] :
                          hv \in {h}, bv \in {bytes}} : TRUE

init == [state |-> IV, buffer |-> <<>>, is_finalized |-> FALSE]

update(c, input) ==
    IF c.is_finalized THEN [ok |-> FALSE, val |-> NoValue, ctx |-> c]
    ELSE LET p == ProcessBlocks(c.state, c.buffer \o input)
         IN  [ok |-> TRUE, val |-> NoValue,
              ctx |-> [c EXCEPT !.state = p.state, !.buffer = p.rest]]

reset(c) ==
    [ok |-> TRUE, val |-> NoValue,
     ctx |-> [c EXCEPT !.state = IV, !.buffer = <<>>, !.is_finalized = FALSE]]

finalize(c) ==
    IF c.is_finalized THEN [ok |-> FALSE, val |-> NoValue, ctx |-> c]
    ELSE LET h == Compress(c.state, Pad(c.buffer))
         IN  [ok |-> TRUE, val |-> h,
              ctx |-> [c EXCEPT !.state = h, !.is_finalized = TRUE]]

one_shot(input) ==
    LET u == update(init, input)
        f == finalize(u.ctx)
    IN  [ok |-> u.ok /\ f.ok, val |-> f.val, ctx |-> f.ctx]

\* the assertion of compare_states holds
compare_states(a, b) ==
    /\ a.state = b.state
    /\ a.buffer = b.buffer
    /\ a.is_finalized = b.is_finalized

\* lifecycle state of a context with the given update calls behind it
Phase(c, p) ==
    IF c.is_finalized THEN "Finalized"
    ELSE IF p = <<>> THEN "Fresh" ELSE "Accumulating"

----------------------------------------------------------------------------
(* A call on a context, with the record of what the context has been fed:  *)
(* s is [ctx, hist, parts, fins], the result adds ok and val of the call.  *)

New ==
    [ok |-> TRUE, val |-> NoValue,
     ctx |-> init, hist |-> <<>>, parts |-> <<>>, fins |-> 0]

Update(s, d) ==
    \* the call is made once, on the value of the context at this point
    CHOOSE c \in {[ok |-> r.ok, val |-> r.val, ctx |-> r.ctx,
                   hist |-> IF r.ok THEN s.hist \o d ELSE s.hist,
                   parts |-> IF r.ok THEN Append(s.parts, Len(d)) ELSE s.parts,
                   fins |-> s.fins] : r \in {update(s.ctx, d)}} : TRUE

Reset(s) ==
    CHOOSE c \in {[ok |-> r.ok, val |-> r.val, ctx |-> r.ctx,
                   hist |-> IF r.ok THEN <<>> ELSE s.hist,
                   parts |-> IF r.ok THEN <<>> ELSE s.parts,
                   fins |-> IF r.ok THEN 0 ELSE s.fins] :
                      r \in {reset(s.ctx)}} : TRUE

Finalize(s) ==
    CHOOSE c \in {[ok |-> r.ok, val |-> r.val, ctx |-> r.ctx,
                   hist |-> s.hist,
                   parts |-> s.parts,
                   fins |-> IF r.ok THEN s.fins + 1 ELSE s.fins] :
                      r \in {finalize(s.ctx)}} : TRUE

----------------------------------------------------------------------------
(* StreamingContextConsistencyTester: each test function as the record of  *)
(* what it observes.  ok: every unwrap and every assertion of the function *)
(* passed; res: the result values it computed; st: the local context it    *)
(* used last.                                                              *)

\* b"WRONG DATA"
WRONG_DATA == <<87, 82, 79, 78, 71, 32, 68, 65, 84, 65>>

\* b"Extra"
Extra == <<69, 120, 116, 114, 97>>

\* consistency with the reset of state_3 left out
consistency_state_3_no_reset(data) ==
    LET u1 == Update(New, data)
        res_1 == Finalize(u1)
        r2 == Reset(New)
        u2 == Update(r2, data)
        res_2 == Finalize(u2)
        u3a == Update(New, data)
        u3b == Update(u3a, data)
        res_3 == Finalize(u3b)
        u4a == Update(New, data)
        f4a == Finalize(u4a)
        r4 == Reset(f4a)
        u4b == Update(r4, data)
        res_4 == Finalize(u4b)
        res_5 == Finalize(New)
        r6 == Reset(New)
        res_6 == Finalize(r6)
        u7 == Update(New, WRONG_DATA)
        r7 == Reset(u7)
        res_7 == Finalize(r7)
        first == /\ u1.ok /\ res_1.ok
                 /\ r2.ok /\ u2.ok /\ res_2.ok
                 /\ u3a.ok /\ u3b.ok /\ res_3.ok
                 /\ u4a.ok /\ f4a.ok /\ r4.ok /\ u4b.ok /\ res_4.ok
                 /\ res_1.val = res_2.val
                 /\ res_2.val = res_3.val
                 /\ res_3.val = res_4.val
        second == /\ res_5.ok
                  /\ r6.ok /\ res_6.ok
                  /\ u7.ok /\ r7.ok /\ res_7.ok
                  /\ res_4.val = res_5.val
                  /\ res_5.val = res_6.val
                  /\ res_6.val = res_7.val
    IN  IF data = <<>>
        THEN [ok |-> first /\ second,
              res |-> <<res_1.val, res_2.val, res_3.val, res_4.val,
                        res_5.val, res_6.val, res_7.val>>,
              st |-> res_7]
        ELSE [ok |-> first,
              res |-> <<res_1.val, res_2.val, res_3.val, res_4.val>>,
              st |-> res_4]

consistency(data) ==
    LET \* init(), update(), finalize()
        u1 == Update(New, data)
        res_1 == Finalize(u1)
        \* init(), reset(), update(), finalize()
        r2 == Reset(New)
        u2 == Update(r2, data)
        res_2 == Finalize(u2)
        \* init(), update(), reset(), update(), finalize()
        u3a == Update(New, data)
        r3 == Reset(u3a)
        u3b == Update(r3, data)
        res_3 == Finalize(u3b)
        \* init(), update(), finalize(), reset(), update(), finalize()
        u4a == Update(New, data)
        f4a == Finalize(u4a)
        r4 == Reset(f4a)
        u4b == Update(r4, data)
        res_4 == Finalize(u4b)
        \* init(), finalize()
        res_5 == Finalize(New)
        \* init(), reset(), finalize()
        r6 == Reset(New)
        res_6 == Finalize(r6)
        \* init(), update(), reset(), finalize()
        u7 == Update(New, WRONG_DATA)
        r7 == Reset(u7)
        res_7 == Finalize(r7)
        first == /\ u1.ok /\ res_1.ok
                 /\ r2.ok /\ u2.ok /\ res_2.ok
                 /\ u3a.ok /\ r3.ok /\ u3b.ok /\ res_3.ok
                 /\ u4a.ok /\ f4a.ok /\ r4.ok /\ u4b.ok /\ res_4.ok
                 /\ res_1.val = res_2.val
                 /\ res_2.val = res_3.val
                 /\ res_3.val = res_4.val
        second == /\ res_5.ok
                  /\ r6.ok /\ res_6.ok
                  /\ u7.ok /\ r7.ok /\ res_7.ok
                  /\ res_4.val = res_5.val
                  /\ res_5.val = res_6.val
                  /\ res_6.val = res_7.val
    IN  IF data = <<>>
        THEN [ok |-> first /\ second,
              res |-> <<res_1.val, res_2.val, res_3.val, res_4.val,
                        res_5.val, res_6.val, res_7.val>>,
              st |-> res_7]
        ELSE [ok |-> first,
              res |-> <<res_1.val, res_2.val, res_3.val, res_4.val>>,
              st |-> res_4]

\* produces_same_state with the reset of state_3 left out
produces_same_state_state_3_no_reset(data) ==
    LET state_1 == New
        state_2 == Reset(New)
        state_3 == Update(New, data)
        u4 == Update(New, data)
        f4 == Finalize(u4)
        state_4 == Reset(f4)
    IN  [ok |-> /\ state_2.ok
                /\ state_3.ok
                /\ u4.ok /\ f4.ok /\ state_4.ok
                /\ compare_states(state_1.ctx, state_2.ctx)
                /\ compare_states(state_2.ctx, state_3.ctx)
                /\ compare_states(state_3.ctx, state_4.ctx),
         res |-> <<>>,
         st |-> state_4]

produces_same_state(data) ==
    LET \* init()
        state_1 == New
        \* init(), reset()
        state_2 == Reset(New)
        \* init(), update(), reset()
        u3 == Update(New, data)
        state_3 == Reset(u3)
        \* init(), update(), finalize(), reset()
        u4 == Update(New, data)
        f4 == Finalize(u4)
        state_4 == Reset(f4)
    IN  [ok |-> /\ state_2.ok
                /\ u3.ok /\ state_3.ok
                /\ u4.ok /\ f4.ok /\ state_4.ok
                /\ compare_states(state_1.ctx, state_2.ctx)
                /\ compare_states(state_2.ctx, state_3.ctx)
                /\ compare_states(state_3.ctx, state_4.ctx),
         res |-> <<>>,
         st |-> state_4]

\* the loop body with b"Extra" fed to the context but not appended to
\* other_data
leftover_iteration_extra_not_recorded(blocksize, len) ==
    LET data == Zeros(len)
        u0 == Update(New, data)
        more1 == Len(data) > blocksize
        more2 == Len(data) > blocksize * 2
        more3 == Len(data) > blocksize * 3
        u1 == IF more1 THEN Update(u0, <<>>) ELSE u0
        d1 == IF more1 THEN data \o <<>> ELSE data
        u2 == IF more2 THEN Update(u1, Extra) ELSE u1
        d2 == d1
        u3 == IF more3 THEN Update(u2, Zeros(256)) ELSE u2
        other_data == IF more3 THEN d2 \o Zeros(256) ELSE d2
        streaming_result == Finalize(u3)
        one_shot_result == one_shot(other_data)
    IN  [ok |-> /\ u0.ok /\ u1.ok /\ u2.ok /\ u3.ok
                /\ streaming_result.ok
                /\ one_shot_result.ok
                /\ streaming_result.val = one_shot_result.val,
         res |-> <<streaming_result.val, one_shot_result.val>>,
         st |-> streaming_result]

\* the loop body with data, instead of b"", appended to other_data after
\* the first boundary
leftover_iteration_data_recorded_twice(blocksize, len) ==
    LET data == Zeros(len)
        u0 == Update(New, data)
        more1 == Len(data) > blocksize
        more2 == Len(data) > blocksize * 2
        more3 == Len(data) > blocksize * 3
        u1 == IF more1 THEN Update(u0, <<>>) ELSE u0
        d1 == IF more1 THEN data \o data ELSE data
        u2 == IF more2 THEN Update(u1, Extra) ELSE u1
        d2 == IF more2 THEN d1 \o Extra ELSE d1
        u3 == IF more3 THEN Update(u2, Zeros(256)) ELSE u2
        other_data == IF more3 THEN d2 \o Zeros(256) ELSE d2
        streaming_result == Finalize(u3)
        one_shot_result == one_shot(other_data)
    IN  [ok |-> /\ u0.ok /\ u1.ok /\ u2.ok /\ u3.ok
                /\ streaming_result.ok
                /\ one_shot_result.ok
                /\ streaming_result.val = one_shot_result.val,
         res |-> <<streaming_result.val, one_shot_result.val>>,
         st |-> streaming_result]

\* one iteration of the loop of incremental_processing_with_leftover
leftover_iteration(blocksize, len) ==
    LET data == Zeros(len)
        u0 == Update(New, data)
        more1 == Len(data) > blocksize
        more2 == Len(data) > blocksize * 2
        more3 == Len(data) > blocksize * 3
        u1 == IF more1 THEN Update(u0, <<>>) ELSE u0
        d1 == IF more1 THEN data \o <<>> ELSE data
        u2 == IF more2 THEN Update(u1, Extra) ELSE u1
        d2 == IF more2 THEN d1 \o Extra ELSE d1
        u3 == IF more3 THEN Update(u2, Zeros(256)) ELSE u2
        other_data == IF more3 THEN d2 \o Zeros(256) ELSE d2
        streaming_result == Finalize(u3)
        one_shot_result == one_shot(other_data)
    IN  [ok |-> /\ u0.ok /\ u1.ok /\ u2.ok /\ u3.ok
                /\ streaming_result.ok
                /\ one_shot_result.ok
                /\ streaming_result.val = one_shot_result.val,
         res |-> <<streaming_result.val, one_shot_result.val>>,
         st |-> streaming_result]

\* incremental_processing_with_leftover looping over 0..blocksize * 3
incremental_processing_with_leftover_three_blocks(blocksize) ==
    LET lens == 0..(blocksize * 3 - 1)
        its == [k \in lens |-> leftover_iteration(blocksize, k)]
    IN  [ok |-> \A k \in lens : its[k].ok,
         res |-> [i \in 1..(blocksize * 3) |-> its[i - 1].res],
         st |-> its[blocksize * 3 - 1].st]

incremental_processing_with_leftover(blocksize) ==
    LET lens == 0..(blocksize * 4 - 1)
        its == [k \in lens |-> leftover_iteration(blocksize, k)]
    IN  [ok |-> \A k \in lens : its[k].ok,
         res |-> [i \in 1..(blocksize * 4) |-> its[i - 1].res],
         st |-> its[blocksize * 4 - 1].st]

double_finalize_with_reset_no_update_ok(data) ==
    LET u == Update(New, data)
        f == Finalize(u)
        r == Reset(f)
        g == Finalize(r)
    IN  [ok |-> u.ok /\ f.ok /\ r.ok /\ g.ok,
         res |-> <<f.val, g.val>>,
         st |-> g]

double_finalize_with_reset_ok(data) ==
    LET u == Update(New, data)
        f == Finalize(u)
        r == Reset(f)
        v == Update(r, data)
        g == Finalize(v)
    IN  [ok |-> u.ok /\ f.ok /\ r.ok /\ v.ok /\ g.ok,
         res |-> <<f.val, g.val>>,
         st |-> g]

\* double_finalize_err with a reset before the second finalize
double_finalize_err_with_reset(data) ==
    LET u == Update(New, data)
        f == Finalize(u)
        r == Reset(f)
        g == Finalize(r)
    IN  [ok |-> u.ok /\ f.ok /\ r.ok /\ ~g.ok,
         res |-> <<f.val>>,
         st |-> g]

double_finalize_err(data) ==
    LET u == Update(New, data)
        f == Finalize(u)
        g == Finalize(f)
    IN  [ok |-> u.ok /\ f.ok /\ ~g.ok,
         res |-> <<f.val>>,
         st |-> g]

update_after_finalize_with_reset_ok(data) ==
    LET u == Update(New, data)
        f == Finalize(u)
        r == Reset(f)
        v == Update(r, data)
    IN  [ok |-> u.ok /\ f.ok /\ v.ok,
         res |-> <<f.val>>,
         st |-> v]

\* update_after_finalize_err with a reset before the second update
update_after_finalize_err_with_reset(data) ==
    LET u == Update(New, data)
        f == Finalize(u)
        r == Reset(f)
        v == Update(r, data)
    IN  [ok |-> u.ok /\ f.ok /\ ~v.ok,
         res |-> <<f.val>>,
         st |-> v]

update_after_finalize_err(data) ==
    LET u == Update(New, data)
        f == Finalize(u)
        v == Update(f, data)
    IN  [ok |-> u.ok /\ f.ok /\ ~v.ok,
         res |-> <<f.val>>,
         st |-> v]

\* double_reset_ok asserting is_err() on the second reset
double_reset_ok_asserts_err(data) ==
    LET u == Update(New, data)
        f == Finalize(u)
        r == Reset(f)
        q == Reset(r)
    IN  [ok |-> u.ok /\ f.ok /\ ~q.ok,
         res |-> <<f.val>>,
         st |-> q]

double_reset_ok(data) ==
    LET u == Update(New, data)
        f == Finalize(u)
        r == Reset(f)
        q == Reset(r)
    IN  [ok |-> u.ok /\ f.ok /\ q.ok,
         res |-> <<f.val>>,
         st |-> q]

\* "Testing streaming context consistency and correctness".as_bytes()
DefaultData ==
    <<84, 101, 115, 116, 105, 110, 103, 32, 115, 116, 114, 101,
      97, 109, 105, 110, 103, 32, 99, 111, 110, 116, 101, 120,
      116, 32, 99, 111, 110, 115, 105, 115, 116, 101, 110, 99,
      121, 32, 97, 110, 100, 32, 99, 111, 114, 114, 101, 99,
      116, 110, 101, 115, 115>>

\* the test functions of a suite run in order; the first one that panics
\* ends the run.  res: the functions that ran, each with the length of its
\* data (the block size for the leftover test).
RunSuite(tests) ==
    CHOOSE r \in
        {LET failed == {i \in DOMAIN ts : ~ts[i].t.ok}
             ran == IF failed = {} THEN Len(ts)
                    ELSE CHOOSE i \in failed : \A j \in failed : i <= j
         IN  [ok |-> failed = {},
              res |-> [i \in 1..ran |-> [fn |-> ts[i].fn, n |-> ts[i].n]],
              st |-> ts[ran].t.st] : ts \in {tests}} : TRUE

\* run_all_tests_with_input without the consistency run on empty data
run_all_tests_with_input_no_empty_consistency(blocksize, data) ==
    RunSuite(<<
                  [fn |-> "consistency", n |-> Len(data),
                   t |-> consistency(data)],
                  [fn |-> "produces_same_state", n |-> Len(data),
                   t |-> produces_same_state(data)],
                  [fn |-> "incremental_processing_with_leftover", n |-> blocksize,
                   t |-> incremental_processing_with_leftover(blocksize)],
                  [fn |-> "double_finalize_with_reset_no_update_ok", n |-> Len(data),
                   t |-> double_finalize_with_reset_no_update_ok(data)],
                  [fn |-> "double_finalize_with_reset_ok", n |-> Len(data),
                   t |-> double_finalize_with_reset_ok(data)],
                  [fn |-> "double_finalize_err", n |-> Len(data),
                   t |-> double_finalize_err(data)],
                  [fn |-> "update_after_finalize_with_reset_ok", n |-> Len(data),
                   t |-> update_after_finalize_with_reset_ok(data)],
                  [fn |-> "update_after_finalize_err", n |-> Len(data),
                   t |-> update_after_finalize_err(data)],
                  [fn |-> "double_reset_ok", n |-> Len(data),
                   t |-> double_reset_ok(data)]>>)

\* blocksize is self.blocksize
run_all_tests_with_input(blocksize, data) ==
    RunSuite(<<
                  [fn |-> "consistency", n |-> Len(data),
                   t |-> consistency(data)],
                  [fn |-> "consistency", n |-> 0,
                   t |-> consistency(<<>>)],
                  [fn |-> "produces_same_state", n |-> Len(data),
                   t |-> produces_same_state(data)],
                  [fn |-> "incremental_processing_with_leftover", n |-> blocksize,
                   t |-> incremental_processing_with_leftover(blocksize)],
                  [fn |-> "double_finalize_with_reset_no_update_ok", n |-> Len(data),
                   t |-> double_finalize_with_reset_no_update_ok(data)],
                  [fn |-> "double_finalize_with_reset_ok", n |-> Len(data),
                   t |-> double_finalize_with_reset_ok(data)],
                  [fn |-> "double_finalize_err", n |-> Len(data),
                   t |-> double_finalize_err(data)],
                  [fn |-> "update_after_finalize_with_reset_ok", n |-> Len(data),
                   t |-> update_after_finalize_with_reset_ok(data)],
                  [fn |-> "update_after_finalize_err", n |-> Len(data),
                   t |-> update_after_finalize_err(data)],
                  [fn |-> "double_reset_ok", n |-> Len(data),
                   t |-> double_reset_ok(data)]>>)

\* blocksize is self.blocksize, which this entry point does not read
run_all_tests(blocksize) ==
    RunSuite(<<
                  [fn |-> "consistency", n |-> Len(DefaultData),
                   t |-> consistency(DefaultData)],
                  [fn |-> "consistency", n |-> 0,
                   t |-> consistency(<<>>)],
                  [fn |-> "produces_same_state", n |-> Len(DefaultData),
                   t |-> produces_same_state(DefaultData)],
                  [fn |-> "double_finalize_with_reset_no_update_ok", n |-> Len(DefaultData),
                   t |-> double_finalize_with_reset_no_update_ok(DefaultData)],
                  [fn |-> "double_finalize_with_reset_ok", n |-> Len(DefaultData),
                   t |-> double_finalize_with_reset_ok(DefaultData)],
                  [fn |-> "double_finalize_err", n |-> Len(DefaultData),
                   t |-> double_finalize_err(DefaultData)],
                  [fn |-> "update_after_finalize_with_reset_ok", n |-> Len(DefaultData),
                   t |-> update_after_finalize_with_reset_ok(DefaultData)],
                  [fn |-> "update_after_finalize_err", n |-> Len(DefaultData),
                   t |-> update_after_finalize_err(DefaultData)],
                  [fn |-> "double_reset_ok", n |-> Len(DefaultData),
                   t |-> double_reset_ok(DefaultData)]>>)

----------------------------------------------------------------------------
(* The counter-mode cipher behind the encryptor and decryptor closures.    *)
(* A u32 initial counter is a pair <<high, low>> of 16-bit halves.         *)

\* bytes per keystream block (the [0u8; 64] and [0u8; 65] of the runner)
CHACHA_BLOCKSIZE == 64

Half == 65536

U32(hi, lo) == <<hi, lo>>

\* u32::max_value()
U32_MAX == U32(Half - 1, Half - 1)

None == <<>>

\* u32::wrapping_add in the place of checked_add
wrapping_add(c, k) ==
    LET lo == c[2] + k
        hi == c[1] + (lo \div Half)
    IN  U32(hi % Half, lo % Half)

\* u32::checked_add for an addend below 2^16
checked_add(c, k) ==
    LET lo == c[2] + k
        hi == c[1] + (lo \div Half)
    IN  IF hi >= Half THEN None ELSE U32(hi, lo % Half)

RECURSIVE Xor(_, _)
Xor(a, b) ==
    IF a = 0 /\ b = 0 THEN 0
    ELSE ((a + b) % 2) + 2 * Xor(a \div 2, b \div 2)

\* byte i (from 0) of the keystream block with the given block counter
Keystream(key, nonce, ctr, i) ==
    (key * 101 + nonce * 59 + ctr[1] * 17 + ctr[2] * 31 + i * 7 + 13) % 256

\* number of keystream blocks for n bytes
BlocksRequired(n) == (n + CHACHA_BLOCKSIZE - 1) \div CHACHA_BLOCKSIZE

\* the input xored with the keystream into the front of dst_out
XorKeystream(key, nonce, initial_counter, input, dst_out) ==
    [i \in 1..Len(dst_out) |->
        IF i <= Len(input)
        THEN Xor(input[i],
                 Keystream(key, nonce,
                           checked_add(initial_counter,
                                       (i - 1) \div CHACHA_BLOCKSIZE),
                           (i - 1) % CHACHA_BLOCKSIZE))
        ELSE dst_out[i]]

\* encrypt rejecting every output buffer whose length is not the input's
encrypt_exact_length(key, nonce, initial_counter, plaintext, dst_out) ==
    IF plaintext = <<>> THEN [ok |-> FALSE, out |-> dst_out]
    ELSE IF Len(dst_out) # Len(plaintext) THEN [ok |-> FALSE, out |-> dst_out]
    ELSE IF checked_add(initial_counter,
                        BlocksRequired(Len(plaintext)) - 1) = None
    THEN [ok |-> FALSE, out |-> dst_out]
    ELSE [ok |-> TRUE,
          out |-> XorKeystream(key, nonce, initial_counter, plaintext, dst_out)]

encrypt(key, nonce, initial_counter, plaintext, dst_out) ==
    IF plaintext = <<>> THEN [ok |-> FALSE, out |-> dst_out]
    ELSE IF Len(dst_out) < Len(plaintext) THEN [ok |-> FALSE, out |-> dst_out]
    ELSE IF checked_add(initial_counter,
                        BlocksRequired(Len(plaintext)) - 1) = None
    THEN [ok |-> FALSE, out |-> dst_out]
    ELSE [ok |-> TRUE,
          out |-> XorKeystream(key, nonce, initial_counter, plaintext, dst_out)]

\* decrypt finding the overflow only when it reaches the block whose counter
\* overflows: the first block has been written by then
decrypt_writes_before_overflow(key, nonce, initial_counter, ciphertext, dst_out) ==
    IF ciphertext = <<>> THEN [ok |-> FALSE, out |-> dst_out]
    ELSE IF Len(dst_out) < Len(ciphertext) THEN [ok |-> FALSE, out |-> dst_out]
    ELSE IF checked_add(initial_counter,
                        BlocksRequired(Len(ciphertext)) - 1) = None
    THEN [ok |-> FALSE,
          out |-> XorKeystream(key, nonce, initial_counter,
                               SubSeq(ciphertext, 1, CHACHA_BLOCKSIZE), dst_out)]
    ELSE [ok |-> TRUE,
          out |-> XorKeystream(key, nonce, initial_counter, ciphertext, dst_out)]

decrypt(key, nonce, initial_counter, ciphertext, dst_out) ==
    IF ciphertext = <<>> THEN [ok |-> FALSE, out |-> dst_out]
    ELSE IF Len(dst_out) < Len(ciphertext) THEN [ok |-> FALSE, out |-> dst_out]
    ELSE IF checked_add(initial_counter,
                        BlocksRequired(Len(ciphertext)) - 1) = None
    THEN [ok |-> FALSE, out |-> dst_out]
    ELSE [ok |-> TRUE,
          out |-> XorKeystream(key, nonce, initial_counter, ciphertext, dst_out)]

\* the record of one call o of the encryptor or the decryptor; p is the
\* plaintext whose ciphertext the call was given, if it was given one
CipherCall(o, k, nc, ctr, inp, buf, p) ==
    CHOOSE c \in {[op |-> o, key |-> k, nonce |-> nc, counter |-> ctr,
                   input |-> inp, dst |-> buf, out |-> r.out, ok |-> r.ok,
                   pt |-> p] :
                      r \in {IF o = "encrypt"
                             THEN encrypt(k, nc, ctr, inp, buf)
                             ELSE decrypt(k, nc, ctr, inp, buf)}} : TRUE

\* no call has been made, or its buffers have been dropped
NoCall ==
    [op |-> "none", key |-> 0, nonce |-> 0, counter |-> U32(0, 0),
     input |-> <<>>, dst |-> <<>>, out |-> <<>>, ok |-> TRUE, pt |-> <<>>]

----------------------------------------------------------------------------
(* The runner's overflow prediction.  A usize, an f32 with an integer      *)
(* value and a u32 are pairs <<high, low>> with low below 2^16; the high   *)
(* part of a u32 is below 2^16 too.                                        *)

Wide(n) == <<n \div Half, n % Half>>

WLt(a, b) == a[1] < b[1] \/ (a[1] = b[1] /\ a[2] < b[2])

WLe(a, b) == a = b \/ WLt(a, b)

WSucc(a) == IF a[2] = Half - 1 THEN <<a[1] + 1, 0>> ELSE <<a[1], a[2] + 1>>

\* a - 1 for a above 0
WPred(a) == IF a[2] = 0 THEN <<a[1] - 1, Half - 1>> ELSE <<a[1], a[2] - 1>>

\* the integer part of a / 64
WDiv64(a) == <<a[1] \div 64, ((a[1] % 64) * Half + a[2]) \div 64>>

WMul64(a) == <<a[1] * 64 + ((a[2] * 64) \div Half), (a[2] * 64) % Half>>

\* significant bits of an f32
F32_MANTISSA == 24

RECURSIVE Pow2(_)
Pow2(k) == IF k = 0 THEN 1 ELSE 2 * Pow2(k - 1)

\* the distance between neighbouring f32 values around n
RECURSIVE F32Ulp(_)
F32Ulp(n) == IF n < Pow2(F32_MANTISSA) THEN 1 ELSE 2 * F32Ulp(n \div 2)

\* `n as f32` for a usize n below 2^30: the nearest f32, ties to the even
\* mantissa
F32(n) ==
    LET ulp == F32Ulp(n)
        q == n \div ulp
        r == n % ulp
    IN  IF 2 * r < ulp THEN Wide(q * ulp)
        ELSE IF 2 * r > ulp THEN Wide((q + 1) * ulp)
        ELSE IF q % 2 = 0 THEN Wide(q * ulp)
        ELSE Wide((q + 1) * ulp)

\* the usize a is an f32 as it stands: `a as f32` loses nothing
RECURSIVE FitsF32(_)
FitsF32(a) ==
    IF a[1] < Pow2(F32_MANTISSA - 16) THEN TRUE
    ELSE IF a[2] % 2 = 1 THEN FALSE
    ELSE FitsF32(<<a[1] \div 2, ((a[1] % 2) * Half + a[2]) \div 2>>)

\* `x as u32` for an f32 x with an integer value: saturating
AsU32(x) == IF x[1] >= Half THEN U32_MAX ELSE x

\* u32::checked_add of two u32
checked_add_u32(x, y) ==
    LET lo == x[2] + y[2]
        hi == x[1] + y[1] + (lo \div Half)
    IN  IF hi >= Half THEN None ELSE U32(hi, lo % Half)

\* a is an f32 with an integer value.  a / 64f32 is exact (a division by a
\* power of two): actual and check_with_floor are kept in units of 1/64.
\* NoValue is the panic of the assertion.
counter_increase_times(a) ==
    IF WLe(a, Wide(64)) THEN U32(0, 0)
    ELSE LET check_with_floor == WMul64(WDiv64(a))
             actual == a
         IN  IF ~WLe(check_with_floor, actual) THEN NoValue
             ELSE IF WLt(check_with_floor, actual)
             THEN WPred(AsU32(WSucc(WDiv64(actual))))
             ELSE WPred(AsU32(WDiv64(actual)))

return_if_counter_will_overflow(key, nonce, counter, input) ==
    LET dst_out == Zeros(Len(input))
        e == CipherCall("encrypt", key, nonce, counter, <<>>, dst_out, <<>>)
        d == CipherCall("decrypt", key, nonce, counter, <<>>, e.out, <<>>)
    IN  [ok |-> input # <<>>,
         val |-> ~e.ok /\ ~d.ok,
         call |-> d]

\* encrypt_decrypt_same_plaintext handing the plaintext to the decryptor
encrypt_decrypt_same_plaintext_decrypts_input(key, nonce, counter, input) ==
    LET predicted == checked_add_u32(counter_increase_times(F32(Len(input))),
                                     counter) = None
        o == return_if_counter_will_overflow(key, nonce, counter, input)
        checked == predicted => (o.ok /\ o.val)
        e == CipherCall("encrypt", key, nonce, counter, input,
                        Zeros(Len(input)), <<>>)
        d == CipherCall("decrypt", key, nonce, counter, input,
                        Zeros(Len(input)), input)
    IN  IF input = <<>> THEN [ok |-> FALSE, call |-> NoCall]
        ELSE IF ~checked THEN [ok |-> FALSE, call |-> o.call]
        ELSE IF ~e.ok THEN [ok |-> FALSE, call |-> e]
        ELSE IF ~d.ok THEN [ok |-> FALSE, call |-> d]
        ELSE [ok |-> input = d.out, call |-> d]

\* call: the last call made, which is the one that panicked if one did
encrypt_decrypt_same_plaintext(key, nonce, counter, input) ==
    LET predicted == checked_add_u32(counter_increase_times(F32(Len(input))),
                                     counter) = None
        o == return_if_counter_will_overflow(key, nonce, counter, input)
        checked == predicted => (o.ok /\ o.val)
        e == CipherCall("encrypt", key, nonce, counter, input,
                        Zeros(Len(input)), <<>>)
        d == CipherCall("decrypt", key, nonce, counter, e.out,
                        Zeros(Len(input)), input)
    IN  IF input = <<>> THEN [ok |-> FALSE, call |-> NoCall]
        ELSE IF ~checked THEN [ok |-> FALSE, call |-> o.call]
        ELSE IF ~e.ok THEN [ok |-> FALSE, call |-> e]
        ELSE IF ~d.ok THEN [ok |-> FALSE, call |-> d]
        ELSE [ok |-> input = d.out, call |-> d]

\* no test function of the runner has run
NoRun == [fn |-> "none", ok |-> TRUE, counter |-> U32(0, 0), input |-> <<>>]

\* no overflow prediction has been made
NoCalc ==
    [made |-> FALSE, n |-> Wide(0), counter |-> U32(0, 0), times |-> U32(0, 0),
     sum |-> U32(0, 0)]

----------------------------------------------------------------------------
(* The cipher test runner: each test function as the record of what it     *)
(* observes.  ok: every assertion of the function passed; call: the last   *)
(* call it made.                                                           *)

\* initial_counter_overflow_err with a one-block input
initial_counter_overflow_err_one_block(key, nonce) ==
    LET dst_out == Zeros(128)
        e == CipherCall("encrypt", key, nonce, U32_MAX, Zeros(64), dst_out, <<>>)
        d == CipherCall("decrypt", key, nonce, U32_MAX, Zeros(64), e.out, <<>>)
    IN  [ok |-> ~e.ok /\ ~d.ok, call |-> d]

initial_counter_overflow_err(key, nonce) ==
    LET dst_out == Zeros(128)
        e == CipherCall("encrypt", key, nonce, U32_MAX, Zeros(65), dst_out, <<>>)
        d == CipherCall("decrypt", key, nonce, U32_MAX, Zeros(65), e.out, <<>>)
    IN  [ok |-> ~e.ok /\ ~d.ok, call |-> d]

\* initial_counter_max_ok with an input that needs a second block
initial_counter_max_ok_two_blocks(key, nonce) ==
    LET dst_out == Zeros(128)
        e == CipherCall("encrypt", key, nonce, U32_MAX, Zeros(65), dst_out, <<>>)
        d == CipherCall("decrypt", key, nonce, U32_MAX, Zeros(65), e.out, <<>>)
    IN  [ok |-> e.ok /\ d.ok, call |-> d]

initial_counter_max_ok(key, nonce) ==
    LET dst_out == Zeros(64)
        e == CipherCall("encrypt", key, nonce, U32_MAX, Zeros(64), dst_out, <<>>)
        d == CipherCall("decrypt", key, nonce, U32_MAX, Zeros(64), e.out, <<>>)
    IN  [ok |-> e.ok /\ d.ok, call |-> d]

\* encrypt_decrypt_input_empty with a one-byte input
encrypt_decrypt_input_empty_one_byte(key, nonce) ==
    LET dst_out == Zeros(64)
        e == CipherCall("encrypt", key, nonce, U32(0, 0), Zeros(1), dst_out, <<>>)
        d == CipherCall("decrypt", key, nonce, U32(0, 0), Zeros(1), e.out, <<>>)
    IN  [ok |-> ~e.ok /\ ~d.ok, call |-> d]

encrypt_decrypt_input_empty(key, nonce) ==
    LET dst_out == Zeros(64)
        e == CipherCall("encrypt", key, nonce, U32(0, 0), <<>>, dst_out, <<>>)
        d == CipherCall("decrypt", key, nonce, U32(0, 0), <<>>, e.out, <<>>)
    IN  [ok |-> ~e.ok /\ ~d.ok, call |-> d]

\* encrypt_decrypt_out_length asserting is_err() on the longer buffer
encrypt_decrypt_out_length_greater_err(key, nonce, input) ==
    LET dst_out_empty == Zeros(0)
        e1 == CipherCall("encrypt", key, nonce, U32(0, 0), input, dst_out_empty, <<>>)
        d1 == CipherCall("decrypt", key, nonce, U32(0, 0), input, e1.out, <<>>)
        dst_out_less == Zeros(Len(input) - 1)
        e2 == CipherCall("encrypt", key, nonce, U32(0, 0), input, dst_out_less, <<>>)
        d2 == CipherCall("decrypt", key, nonce, U32(0, 0), input, e2.out, <<>>)
        dst_out_exact == Zeros(Len(input))
        e3 == CipherCall("encrypt", key, nonce, U32(0, 0), input, dst_out_exact, <<>>)
        d3 == CipherCall("decrypt", key, nonce, U32(0, 0), input, e3.out, <<>>)
        dst_out_greater == Zeros(Len(input) + 1)
        e4 == CipherCall("encrypt", key, nonce, U32(0, 0), input, dst_out_greater, <<>>)
        d4 == CipherCall("decrypt", key, nonce, U32(0, 0), input, e4.out, <<>>)
    IN  [ok |-> /\ input # <<>>
                /\ ~e1.ok /\ ~d1.ok
                /\ ~e2.ok /\ ~d2.ok
                /\ e3.ok /\ d3.ok
                /\ ~e4.ok /\ ~d4.ok,
         call |-> d4]

encrypt_decrypt_out_length(key, nonce, input) ==
    LET dst_out_empty == Zeros(0)
        e1 == CipherCall("encrypt", key, nonce, U32(0, 0), input, dst_out_empty, <<>>)
        d1 == CipherCall("decrypt", key, nonce, U32(0, 0), input, e1.out, <<>>)
        dst_out_less == Zeros(Len(input) - 1)
        e2 == CipherCall("encrypt", key, nonce, U32(0, 0), input, dst_out_less, <<>>)
        d2 == CipherCall("decrypt", key, nonce, U32(0, 0), input, e2.out, <<>>)
        dst_out_exact == Zeros(Len(input))
        e3 == CipherCall("encrypt", key, nonce, U32(0, 0), input, dst_out_exact, <<>>)
        d3 == CipherCall("decrypt", key, nonce, U32(0, 0), input, e3.out, <<>>)
        dst_out_greater == Zeros(Len(input) + 1)
        e4 == CipherCall("encrypt", key, nonce, U32(0, 0), input, dst_out_greater, <<>>)
        d4 == CipherCall("decrypt", key, nonce, U32(0, 0), input, e4.out, <<>>)
    IN  [ok |-> /\ input # <<>>
                /\ ~e1.ok /\ ~d1.ok
                /\ ~e2.ok /\ ~d2.ok
                /\ e3.ok /\ d3.ok
                /\ e4.ok /\ d4.ok,
         call |-> d4]

\* call: the last call made, which is the one that panicked if one did
StreamCipherTestRunner(key, nonce, counter, input) ==
    LET t1 == encrypt_decrypt_same_plaintext(key, nonce, counter, input)
        t2 == encrypt_decrypt_out_length(key, nonce, input)
        t3 == encrypt_decrypt_input_empty(key, nonce)
        t4 == initial_counter_overflow_err(key, nonce)
        t5 == initial_counter_max_ok(key, nonce)
    IN  IF input # <<>> /\ ~t1.ok THEN t1
        ELSE IF input # <<>> /\ ~t2.ok THEN t2
        ELSE IF ~t3.ok THEN t3
        ELSE IF ~t4.ok THEN t4
        ELSE t5

----------------------------------------------------------------------------
(* The state machine: a caller driving one context through the calls of    *)
(* the trait, and the test functions of the tester.                        *)

Cur == [ctx |-> ctx, hist |-> hist, parts |-> parts, fins |-> fins]

\* the call r has been made on the driven context
Called(op, n, r) ==
    /\ ctx' = r.ctx
    /\ prev' = ctx
    /\ hist' = r.hist
    /\ parts' = r.parts
    /\ fins' = r.fins
    /\ last' = [op |-> op, n |-> n, ok |-> r.ok, val |-> r.val,
                pre |-> Phase(ctx, parts), preop |-> last.op]
    /\ res' = <<>>
    /\ UNCHANGED cipherVars

\* the test function has run to its end (or to its panic) and t is what it
\* observed
Ran(name, n, t) ==
    /\ ctx' = t.st.ctx
    /\ prev' = t.st.ctx
    /\ hist' = t.st.hist
    /\ parts' = t.st.parts
    /\ fins' = t.st.fins
    /\ last' = [op |-> name, n |-> n, ok |-> t.ok, val |-> NoValue,
                pre |-> "Fresh", preop |-> last.op]
    /\ res' = t.res
    /\ UNCHANGED cipherVars

Init ==
    /\ ctx = init
    /\ prev = init
    /\ hist = <<>>
    /\ parts = <<>>
    /\ fins = 0
    /\ last = [op |-> "init", n |-> 0, ok |-> TRUE, val |-> NoValue,
               pre |-> "Fresh", preop |-> "none"]
    /\ res = <<>>
    /\ call = NoCall
    /\ run = NoRun
    /\ calc = NoCalc

DoInit ==
    /\ TRUE
    /\ Called("init", 0, New)

DoUpdate ==
    \E d \in Chunks :
        \E r \in {Update(Cur, d)} :
            /\ r.ok => Len(r.hist) <= MaxHist /\ Len(r.parts) <= MaxUpdates
            /\ Called("update", Len(d), r)

DoReset ==
    \E r \in {Reset(Cur)} : Called("reset", 0, r)

DoFinalize ==
    \E r \in {Finalize(Cur)} : Called("finalize", 0, r)

\* Every test function opens with T::init(): its action is the rest of the
\* function, taken from the state that call leaves.
Opened == last.op = "init" /\ ctx = init

TestConsistency ==
    /\ Opened
    /\ \E data \in Data :
        \E t \in {consistency(data)} :
            Ran("consistency", Len(data), t)

TestProducesSameState ==
    /\ Opened
    /\ \E data \in Data :
        \E t \in {produces_same_state(data)} :
            Ran("produces_same_state", Len(data), t)

TestIncrementalProcessingWithLeftover ==
    /\ Opened
    /\ \E blocksize \in 1..BlockSize :
        \E t \in {incremental_processing_with_leftover(blocksize)} :
            Ran("incremental_processing_with_leftover", blocksize, t)

TestDoubleFinalizeWithResetNoUpdateOk ==
    /\ Opened
    /\ \E data \in Data :
        \E t \in {double_finalize_with_reset_no_update_ok(data)} :
            Ran("double_finalize_with_reset_no_update_ok", Len(data), t)

TestDoubleFinalizeWithResetOk ==
    /\ Opened
    /\ \E data \in Data :
        \E t \in {double_finalize_with_reset_ok(data)} :
            Ran("double_finalize_with_reset_ok", Len(data), t)

TestDoubleFinalizeErr ==
    /\ Opened
    /\ \E data \in Data :
        \E t \in {double_finalize_err(data)} :
            Ran("double_finalize_err", Len(data), t)

TestUpdateAfterFinalizeWithResetOk ==
    /\ Opened
    /\ \E data \in Data :
        \E t \in {update_after_finalize_with_reset_ok(data)} :
            Ran("update_after_finalize_with_reset_ok", Len(data), t)

TestUpdateAfterFinalizeErr ==
    /\ Opened
    /\ \E data \in Data :
        \E t \in {update_after_finalize_err(data)} :
            Ran("update_after_finalize_err", Len(data), t)

TestDoubleResetOk ==
    /\ Opened
    /\ \E data \in Data :
        \E t \in {double_reset_ok(data)} :
            Ran("double_reset_ok", Len(data), t)

\* The entry points are called on a tester that new() has just built around
\* a context fresh from T::init().
Built == Opened /\ last.preop = "none"

TestRunAllTestsWithInput ==
    /\ Built
    /\ \E blocksize \in 1..BlockSize, data \in Data :
        \E t \in {run_all_tests_with_input(blocksize, data)} :
            Ran("run_all_tests_with_input", blocksize, t)

TestRunAllTests ==
    /\ Built
    /\ \E blocksize \in 1..BlockSize :
        \E t \in {run_all_tests(blocksize)} :
            Ran("run_all_tests", blocksize, t)

Next ==
    \/ DoInit
    \/ DoUpdate
    \/ DoReset
    \/ DoFinalize
    \/ TestConsistency
    \/ TestProducesSameState
    \/ TestIncrementalProcessingWithLeftover
    \/ TestDoubleFinalizeWithResetNoUpdateOk
    \/ TestDoubleFinalizeWithResetOk
    \/ TestDoubleFinalizeErr
    \/ TestUpdateAfterFinalizeWithResetOk
    \/ TestUpdateAfterFinalizeErr
    \/ TestDoubleResetOk
    \/ TestRunAllTestsWithInput
    \/ TestRunAllTests

Spec == Init /\ [][Next]_vars

----------------------------------------------------------------------------
(* The state machine of the cipher: calls of the encryptor and the         *)
(* decryptor, and the test functions of the runner.                        *)

Keys == {0, 1}

Nonces == {0, 1}

\* initial counters: the low end, a carry between the halves, and the last
\* MaxBlocks + 1 values of the range
Counters ==
    {U32(0, 0), U32(0, 1), U32(0, Half - 1), U32(1, 0)}
        \cup {U32(Half - 1, Half - 1 - k) : k \in 0..MaxBlocks}

\* input lengths: around every block boundary up to MaxBlocks blocks
Lens ==
    {n \in 0..(MaxBlocks * CHACHA_BLOCKSIZE + 1) :
        (n % CHACHA_BLOCKSIZE) \in {0, 1, CHACHA_BLOCKSIZE - 1}}

\* output buffer lengths tried with an input of n bytes
DstLens(n) == {m \in {0, n - 1, n, n + 1, n + CHACHA_BLOCKSIZE} : m >= 0}

\* caller-chosen bytes: all zero, or a running pattern
Fill(n, f) == [i \in 1..n |-> (f * i) % 256]

Fills == {0, 5}

\* Each invocation is made on buffers of its own: the arguments of a call
\* are chosen when the buffers of the call before have been dropped.
Idle == call.op = "none" /\ ~calc.made

\* the call c has been made
Made(c) ==
    /\ call' = c
    /\ run' = NoRun
    /\ calc' = NoCalc
    /\ UNCHANGED streamVars

\* the test function fn, given counter and input, has run to its end (or to
\* its panic)
RanCipherOn(fn, counter, input, t) ==
    /\ call' = t.call
    /\ run' = [fn |-> fn, ok |-> t.ok, counter |-> counter, input |-> input]
    /\ calc' = NoCalc
    /\ UNCHANGED streamVars

\* the same for a test function that takes neither
RanCipher(fn, t) == RanCipherOn(fn, U32(0, 0), <<>>, t)

DoEncrypt ==
    /\ Idle
    /\ \E key \in Keys, nonce \in Nonces, counter \in Counters, n \in Lens,
          f \in Fills, g \in Fills :
           \E m \in DstLens(n) :
               Made(CipherCall("encrypt", key, nonce, counter,
                               Fill(n, f), Fill(m, g), <<>>))

DoDecrypt ==
    /\ Idle
    /\ \E key \in Keys, nonce \in Nonces, counter \in Counters, n \in Lens,
          f \in Fills, g \in Fills :
           \E m \in DstLens(n) :
               Made(CipherCall("decrypt", key, nonce, counter,
                               Fill(n, f), Fill(m, g), <<>>))

\* the ciphertext of the last encrypt call is decrypted with the same key,
\* nonce and counter into a fresh buffer of the input's length
DoDecryptCiphertext ==
    /\ call.op = "encrypt" /\ call.ok /\ run.fn = "none"
    /\ Made(CipherCall("decrypt", call.key, call.nonce, call.counter,
                       SubSeq(call.out, 1, Len(call.input)),
                       Zeros(Len(call.input)), call.input))

\* the buffers of the last call go out of scope
DoDrop ==
    /\ ~Idle
    /\ Made(NoCall)

TestInitialCounterOverflowErr ==
    /\ Idle
    /\ \E key \in Keys, nonce \in Nonces :
           \E t \in {initial_counter_overflow_err(key, nonce)} :
               RanCipher("initial_counter_overflow_err", t)

TestInitialCounterMaxOk ==
    /\ Idle
    /\ \E key \in Keys, nonce \in Nonces :
           \E t \in {initial_counter_max_ok(key, nonce)} :
               RanCipher("initial_counter_max_ok", t)

TestEncryptDecryptInputEmpty ==
    /\ Idle
    /\ \E key \in Keys, nonce \in Nonces :
           \E t \in {encrypt_decrypt_input_empty(key, nonce)} :
               RanCipher("encrypt_decrypt_input_empty", t)

TestEncryptDecryptOutLength ==
    /\ Idle
    /\ \E key \in Keys, nonce \in Nonces, n \in Lens \ {0}, f \in Fills :
           \E t \in {encrypt_decrypt_out_length(key, nonce, Fill(n, f))} :
               RanCipher("encrypt_decrypt_out_length", t)

TestStreamCipherTestRunner ==
    /\ Idle
    /\ \E key \in Keys, nonce \in Nonces, counter \in Counters, n \in Lens,
          f \in Fills :
           \E t \in {StreamCipherTestRunner(key, nonce, counter, Fill(n, f))} :
               RanCipherOn("StreamCipherTestRunner", counter, Fill(n, f), t)

\* input lengths of the overflow prediction: the lengths of the calls, and
\* lengths around 2^24, 2^37, 2^38 and 2^39
PredictedLens ==
    {Wide(n) : n \in Lens}
        \cup {Wide(Pow2(F32_MANTISSA) + k) : k \in {-1, 0, 1, 2, 64, 66}}
        \cup {<<Pow2(21), 0>>, <<Pow2(22) - 1, Half - Pow2(14)>>,
              <<Pow2(22), 0>>, <<Pow2(22), Pow2(15)>>, <<Pow2(23), 0>>}

\* the condition of encrypt_decrypt_same_plaintext for an input of n bytes,
\* n an f32 as it stands
DoCounterIncreaseTimes ==
    /\ Idle
    /\ \E n \in PredictedLens, counter \in Counters :
           /\ FitsF32(n)
           /\ \E t \in {counter_increase_times(n)} :
                  calc' = [made |-> TRUE, n |-> n, counter |-> counter,
                           times |-> t, sum |-> checked_add_u32(t, counter)]
    /\ UNCHANGED <<call, run>>
    /\ UNCHANGED streamVars

\* the overflow branch of encrypt_decrypt_same_plaintext: the call of
\* return_if_counter_will_overflow and the assertion on what it returns
TestReturnIfCounterWillOverflow ==
    /\ Idle
    /\ \E key \in Keys, nonce \in Nonces, counter \in Counters,
          n \in Lens \ {0}, f \in Fills :
           /\ checked_add_u32(counter_increase_times(F32(n)), counter) = None
           /\ \E o \in {return_if_counter_will_overflow(key, nonce, counter,
                                                        Fill(n, f))} :
                  RanCipherOn("return_if_counter_will_overflow", counter,
                              Fill(n, f),
                              [ok |-> o.ok /\ o.val, call |-> o.call])

TestEncryptDecryptSamePlaintext ==
    /\ Idle
    /\ \E key \in Keys, nonce \in Nonces, counter \in Counters,
          n \in Lens \ {0}, f \in Fills :
           \E t \in {encrypt_decrypt_same_plaintext(key, nonce, counter,
                                                    Fill(n, f))} :
               RanCipherOn("encrypt_decrypt_same_plaintext", counter,
                           Fill(n, f), t)

NextCipher ==
    \/ DoEncrypt
    \/ DoDecrypt
    \/ DoDecryptCiphertext
    \/ DoDrop
    \/ TestInitialCounterOverflowErr
    \/ TestInitialCounterMaxOk
    \/ TestEncryptDecryptInputEmpty
    \/ TestEncryptDecryptOutLength
    \/ TestEncryptDecryptSamePlaintext
    \/ TestReturnIfCounterWillOverflow
    \/ DoCounterIncreaseTimes
    \/ TestStreamCipherTestRunner

SpecCipher == Init /\ [][NextCipher]_vars

----------------------------------------------------------------------------
(* Properties of the streaming contract *)

\* C1: chunking invariance.  Whenever finalize succeeds, in whatever chunks
\* (empty ones included) the bytes hist were fed since the last init or
\* reset, its value is one_shot(hist); and in every iteration of
\* incremental_processing_with_leftover the streaming result equals the
\* one-shot result.
C1_ChunkingInvariance ==
    /\ (last.op = "finalize" /\ last.ok) =>
           \E o \in {one_shot(hist)} : o.ok /\ last.val = o.val
    /\ last.op = "incremental_processing_with_leftover" =>
           /\ last.ok
           /\ \A i \in DOMAIN res : res[i][1] = res[i][2]

\* C1 happens: a finalize that succeeded after three update calls, one of
\* them empty, the first one not block-aligned, more than a block in total.
C1_Witness ==
    /\ last.op = "finalize" /\ last.ok
    /\ Len(parts) = 3
    /\ \E i \in DOMAIN parts : parts[i] = 0
    /\ parts[1] % BlockSize # 0
    /\ Len(hist) > BlockSize

\* C2: finalize succeeds if and only if no finalize has succeeded since the
\* last init or reset: never more than one success per segment, a rejected
\* finalize leaves the context as it was and Finalized, and the tester's
\* three finalize checks pass (rejected twice in a row, accepted again after
\* a reset with and without an update).
C2_FinalizeOncePerSegment ==
    /\ fins \in {0, 1}
    /\ last.op = "finalize" =>
           /\ fins = 1
           /\ ctx.is_finalized
           /\ last.ok <=> last.pre # "Finalized"
           /\ ~last.ok => ctx = prev
    /\ last.op \in {"double_finalize_err",
                    "double_finalize_with_reset_no_update_ok",
                    "double_finalize_with_reset_ok"} => last.ok

\* C2 happens: a second finalize in the same segment was rejected.
C2_Witness ==
    /\ last.op = "finalize" /\ ~last.ok
    /\ last.preop = "finalize"
    /\ hist # <<>>

\* C3: update is rejected exactly on a context finalized and not reset since,
\* a rejected update leaves the context exactly as it was, and the tester's
\* two update checks pass.
C3_UpdateAfterFinalize ==
    /\ last.op = "update" =>
           /\ last.ok <=> fins = 0
           /\ ~last.ok => ctx = prev /\ ctx.is_finalized
    /\ last.op \in {"update_after_finalize_err",
                    "update_after_finalize_with_reset_ok"} => last.ok

\* C3 happens: a non-empty update was rejected on a finalized context that
\* holds leftover bytes.
C3_Witness ==
    /\ last.op = "update" /\ ~last.ok
    /\ last.n > 0
    /\ prev.buffer # <<>>

\* C4: after a reset, whatever came before, the context is structurally equal
\* to init (buffer, running state, flag clear), and produces_same_state's
\* comparisons pass.
C4_ResetRestoresInit ==
    /\ last.op = "reset" =>
           /\ compare_states(ctx, init)
           /\ ctx.buffer = <<>> /\ ctx.state = IV /\ ~ctx.is_finalized
    /\ last.op = "produces_same_state" => last.ok

\* C4 happens: a reset of a finalized context with leftover bytes, right
\* after a rejected update.
C4_Witness ==
    /\ last.op = "reset"
    /\ last.preop = "update"
    /\ prev.is_finalized
    /\ prev.buffer # <<>>
    /\ prev.state # IV

\* C5: reset can be called and succeeds in every reachable state and leads
\* to Fresh, also right after another reset; double_reset_ok passes.
C5_ResetAlwaysToFresh ==
    /\ ENABLED DoReset
    /\ \E r \in {Reset(Cur)} : r.ok /\ Phase(r.ctx, r.parts) = "Fresh"
    /\ last.op = "reset" => last.ok /\ Phase(ctx, parts) = "Fresh"
    /\ last.op = "double_reset_ok" => last.ok

\* C5 happens: a reset directly after another reset.
C5_Witness ==
    /\ last.op = "reset"
    /\ last.preop = "reset"
    /\ last.pre = "Fresh"

\* C6: the value of finalize depends only on the bytes fed since the last
\* init or reset: the four (for empty data seven) sequences of consistency
\* give one value, finalize without update gives the value of empty input.
C6_HistoryIndependence ==
    /\ last.op = "consistency" =>
           /\ last.ok
           /\ Len(res) = IF last.n = 0 THEN 7 ELSE 4
           /\ \A i, j \in DOMAIN res : res[i] = res[j]
    /\ (last.op = "finalize" /\ last.ok) =>
           /\ last.val = Finalize(Update(New, hist)).val
           /\ hist = <<>> => last.val = Finalize(New).val

\* C6 happens: consistency has run on data longer than a block.
C6_Witness ==
    /\ last.op = "consistency"
    /\ last.n > BlockSize
    /\ Len(res) = 4

\* C7: an update with empty input on a context that is not finalized
\* succeeds and leaves the context as it was; in the leftover test the
\* iterations that add only the empty update give the one-shot value of the
\* data alone, and for empty data update-then-finalize equals finalize alone.
C7_EmptyUpdateNoOp ==
    /\ (last.op = "update" /\ last.n = 0 /\ fins = 0) =>
           /\ last.ok
           /\ ctx = prev
    /\ last.op = "incremental_processing_with_leftover" =>
           \A len \in (last.n + 1)..(2 * last.n) :
               /\ res[len + 1][1] = res[len + 1][2]
               /\ res[len + 1][2] = one_shot(Zeros(len)).val
    /\ (last.op = "consistency" /\ last.n = 0) => res[1] = res[5]

\* C7 happens: an empty update on a context that holds leftover bytes.
C7_Witness ==
    /\ last.op = "update" /\ last.ok
    /\ last.n = 0
    /\ last.pre = "Accumulating"
    /\ prev.buffer # <<>>

----------------------------------------------------------------------------
(* Properties of the counter-mode cipher contract *)

IsCipherCall == call.op \in {"encrypt", "decrypt"}

\* the 32-bit value c plus k (k below 2^16) is above u32::MAX
Exceeds(c, k) == c[1] = Half - 1 /\ c[2] + k > Half - 1

\* the last block counter the call needs is above u32::MAX
CounterOverflows ==
    Exceeds(call.counter, BlocksRequired(Len(call.input)) - 1)

\* C8: counter overflow rule.  A call of encrypt or decrypt with a non-empty
\* input of n bytes and an output buffer of at least n bytes fails if and
\* only if initial_counter + ceil(n/64) - 1 is above u32::MAX; and the
\* runner's two boundary tests pass (u32::MAX with 64 bytes accepted, with
\* 65 bytes rejected, by both operations).
C8_CounterOverflowRule ==
    /\ (/\ IsCipherCall
        /\ call.input # <<>>
        /\ Len(call.dst) >= Len(call.input)) =>
           (~call.ok <=> CounterOverflows)
    /\ run.fn \in {"initial_counter_overflow_err", "initial_counter_max_ok"} =>
           run.ok

\* C8 happens: a call with initial counter u32::MAX - 1 and an input of two
\* full blocks into a large enough buffer was accepted.
C8_Witness ==
    /\ IsCipherCall /\ run.fn = "none"
    /\ call.counter = U32(Half - 1, Half - 2)
    /\ Len(call.input) = 2 * CHACHA_BLOCKSIZE
    /\ Len(call.dst) >= Len(call.input)
    /\ call.ok

\* C9 as stated: a call fails whenever the initial counter plus the number
\* of blocks required, ceil(n/64), is above u32::MAX.
C9_AsStated ==
    (/\ IsCipherCall
     /\ call.input # <<>>
     /\ Exceeds(call.counter, BlocksRequired(Len(call.input)))) => ~call.ok

\* C9: a call with a non-empty input fails, and leaves the output buffer as
\* it was given, whenever the initial counter plus the number of blocks
\* required minus one is above u32::MAX, whatever the size of the output
\* buffer; the counter of the last block may be u32::MAX itself, as
\* initial_counter_max_ok asserts.
C9_FailsBeforeOutputOnOverflow ==
    /\ (/\ IsCipherCall
        /\ call.input # <<>>
        /\ CounterOverflows) =>
           (~call.ok /\ call.out = call.dst)
    /\ run.fn = "initial_counter_max_ok" => run.ok

\* C9 happens: a call whose last block counter would be above u32::MAX was
\* rejected, with a non-zero output buffer that was large enough.
C9_Witness ==
    /\ IsCipherCall /\ run.fn = "none"
    /\ call.input # <<>>
    /\ CounterOverflows
    /\ Len(call.dst) > Len(call.input)
    /\ \E i \in DOMAIN call.dst : call.dst[i] # 0
    /\ ~call.ok

\* C10: output length validation.  A call with a non-empty input fails when
\* the output buffer is shorter than the input (an empty buffer included);
\* when the buffer has the input's length or more, and the counter does not
\* overflow, the call succeeds; and encrypt_decrypt_out_length passes.
C10_OutputLengthValidation ==
    /\ (IsCipherCall /\ call.input # <<>>) =>
           /\ Len(call.dst) < Len(call.input) => ~call.ok
           /\ (Len(call.dst) >= Len(call.input) /\ ~CounterOverflows) =>
                  call.ok
    /\ run.fn = "encrypt_decrypt_out_length" => run.ok

\* C10 happens: a decrypt call with a buffer longer than its input, which is
\* longer than a block, succeeded.
C10_Witness ==
    /\ call.op = "decrypt" /\ run.fn = "none"
    /\ Len(call.input) > CHACHA_BLOCKSIZE
    /\ Len(call.dst) > Len(call.input)
    /\ call.ok

\* C11 as stated: a call with a non-empty input fails whenever the length of
\* the output buffer differs from the length of the input, shorter or longer.
C11_AsStated ==
    (/\ IsCipherCall
     /\ call.input # <<>>
     /\ Len(call.dst) # Len(call.input)) => ~call.ok

\* C11: of the two mismatches only the shorter buffer is rejected.  A call
\* with a non-empty input whose counter does not overflow fails if and only
\* if the output buffer is shorter than the input: a longer buffer is
\* accepted like an exactly sized one, as encrypt_decrypt_out_length asserts
\* with input.len() + 1.
C11_OnlyShorterRejected ==
    /\ (/\ IsCipherCall
        /\ call.input # <<>>
        /\ ~CounterOverflows) =>
           (~call.ok <=> Len(call.dst) < Len(call.input))
    /\ run.fn = "encrypt_decrypt_out_length" =>
           /\ run.ok
           /\ call.ok /\ Len(call.dst) = Len(call.input) + 1

\* C11 happens: an encrypt call with a non-zero counter and a buffer a whole
\* block longer than its input was accepted.
C11_Witness ==
    /\ call.op = "encrypt" /\ run.fn = "none"
    /\ call.counter # U32(0, 0)
    /\ call.input # <<>>
    /\ Len(call.dst) = Len(call.input) + CHACHA_BLOCKSIZE
    /\ call.ok

\* C12: round trip.  Decrypting the ciphertext of a successful encrypt call
\* (non-empty input, output of the input's length) with the same key, nonce
\* and counter succeeds and gives back the plaintext; and
\* encrypt_decrypt_same_plaintext passes for every counter and input whose
\* counter does not overflow.
C12_RoundTrip ==
    /\ (call.op = "decrypt" /\ call.pt # <<>>) =>
           /\ call.ok
           /\ call.out = call.pt
    /\ (/\ run.fn = "encrypt_decrypt_same_plaintext"
        /\ ~Exceeds(run.counter, BlocksRequired(Len(run.input)) - 1)) =>
           /\ run.ok
           /\ call.op = "decrypt" /\ call.out = run.input

\* C12 happens: the ciphertext of more than a block of plaintext, which
\* differs from the plaintext, was decrypted under a non-zero counter.
C12_Witness ==
    /\ call.op = "decrypt" /\ run.fn = "none"
    /\ Len(call.pt) > CHACHA_BLOCKSIZE
    /\ call.input # call.pt
    /\ call.counter # U32(0, 0)
    /\ call.ok

\* C13 as stated: a call with a non-empty input and an output buffer of the
\* input's length succeeds, for every initial counter and input length.
C13_AsStated ==
    (/\ IsCipherCall
     /\ call.input # <<>>
     /\ Len(call.dst) = Len(call.input)) => call.ok

\* C13: a call with a non-empty input and an output buffer of the input's
\* length succeeds exactly when initial_counter + ceil(n/64) - 1 is at most
\* u32::MAX, and fails otherwise.
C13_ExactBufferSucceedsUnlessOverflow ==
    (/\ IsCipherCall
     /\ call.input # <<>>
     /\ Len(call.dst) = Len(call.input)) =>
        /\ call.ok <=> ~CounterOverflows
        /\ Len(call.out) = Len(call.input)

\* C13 happens: a call with an exactly sized buffer was rejected because its
\* third block would need a counter above u32::MAX.
C13_Witness ==
    /\ IsCipherCall /\ run.fn = "none"
    /\ call.counter = U32(Half - 1, Half - 2)
    /\ Len(call.input) = 2 * CHACHA_BLOCKSIZE + 1
    /\ Len(call.dst) = Len(call.input)
    /\ ~call.ok

\* C14: whenever encrypt or decrypt returns an error, which it does for an
\* empty input, an output buffer shorter than the input or a counter
\* overflow, the output buffer is byte for byte what the caller passed in;
\* the buffer of initial_counter_overflow_err is still all zero after its
\* two rejected calls.
C14_OutputUnchangedOnError ==
    /\ (IsCipherCall /\ ~call.ok) =>
           /\ call.out = call.dst
           /\ \/ call.input = <<>>
              \/ Len(call.dst) < Len(call.input)
              \/ CounterOverflows
    /\ run.fn = "initial_counter_overflow_err" =>
           ~call.ok /\ call.out = Zeros(2 * CHACHA_BLOCKSIZE)

\* C14 happens: a decrypt call with a non-zero input of more than a block
\* and a non-zero buffer of the same length was rejected for its counter.
C14_Witness ==
    /\ call.op = "decrypt" /\ run.fn = "none"
    /\ ~call.ok
    /\ CounterOverflows
    /\ Len(call.dst) = Len(call.input)
    /\ \E i \in DOMAIN call.dst : call.dst[i] # 0
    /\ \E i \in DOMAIN call.input : call.input[i] # 0

\* C15: empty input rejection.  encrypt and decrypt fail on an input of
\* length zero, with every initial counter and every size of the output
\* buffer; encrypt_decrypt_input_empty, which tries counter 0 and a buffer
\* of 64 bytes, passes.
C15_EmptyInputRejected ==
    /\ (IsCipherCall /\ call.input = <<>>) => ~call.ok
    /\ run.fn = "encrypt_decrypt_input_empty" =>
           /\ run.ok
           /\ call.input = <<>>
           /\ call.counter = U32(0, 0)
           /\ Len(call.dst) = CHACHA_BLOCKSIZE

\* C15 happens: a call with an empty input, the initial counter u32::MAX
\* and a buffer of a block was rejected.
C15_Witness ==
    /\ IsCipherCall /\ run.fn = "none"
    /\ call.input = <<>>
    /\ call.counter = U32_MAX
    /\ Len(call.dst) = CHACHA_BLOCKSIZE
    /\ ~call.ok

----------------------------------------------------------------------------
(* Properties of the cipher test runner *)

\* C16 as stated: when overflow is predicted for (initial_counter, input),
\* the calls whose rejection the round-trip check asserts are made with that
\* initial counter and that same input.
C16_AsStated ==
    run.fn = "return_if_counter_will_overflow" =>
        /\ run.ok
        /\ ~call.ok
        /\ call.counter = run.counter
        /\ call.input = run.input

\* t is 0 for n <= 64 and ceil(n / 64) - 1 above: 64 * t < n <= 64 * (t + 1)
IsIncreaseTimes(t, n) ==
    IF WLe(n, Wide(64)) THEN t = U32(0, 0)
    ELSE WLt(WMul64(t), n) /\ WLe(n, WMul64(WSucc(t)))

\* counter + t is above u32::MAX: t is above u32::MAX - counter
SumExceeds(counter, t) ==
    WLt(<<Half - 1 - counter[1], Half - 1 - counter[2]>>, t)

\* C17 as stated: for every input length n that f32 represents exactly,
\* counter_increase_times(n) is 0 when n <= 64 and ceil(n/64) - 1 otherwise,
\* and counter_increase_times(n).checked_add(counter) is None exactly when
\* counter + ceil(n/64) - 1 is above u32::MAX.
C17_AsStated ==
    (calc.made /\ FitsF32(calc.n)) =>
        /\ IsIncreaseTimes(calc.times, calc.n)
        /\ calc.sum = None <=> SumExceeds(calc.counter, calc.times)

\* The same for the input lengths below 2^38, where ceil(n/64) is a u32.
CounterIncreaseTimesExactBelowSaturation ==
    (calc.made /\ FitsF32(calc.n) /\ WLt(calc.n, <<Pow2(22), 0>>)) =>
        /\ IsIncreaseTimes(calc.times, calc.n)
        /\ calc.sum = None <=> SumExceeds(calc.counter, calc.times)

----------------------------------------------------------------------------
(* Properties of the streaming consistency tester *)

\* the update calls an iteration makes after its first one
AdditionalUpdates(blocksize, len) ==
    Cardinality({k \in 1..3 : len > k * blocksize})

\* some length of the test makes exactly j update calls after the first one
Exercised(blocksize, j) ==
    \E len \in 0..(blocksize * 4 - 1) :
        Len(leftover_iteration(blocksize, len).st.parts) = 1 + j

\* C18 as stated: for a given block size, the test exercises each of the
\* cases of 0, 1, 2 and 3 additional update calls.
C18_AsStated ==
    last.op = "incremental_processing_with_leftover" =>
        \A j \in 0..3 : Exercised(last.n, j)

\* C18: for a block size of at least 1 the test runs once for every length
\* from 0 to 4 * blocksize - 1, makes one more update call for each k in
\* {1, 2, 3} with length > k * blocksize, and compares the streaming result
\* with one_shot over the concatenation, in order, of all slices passed to
\* update; for a block size of at least 2 each of the cases of 0, 1, 2 and
\* 3 additional update calls is exercised.
C18_LeftoverCoverage ==
    last.op = "incremental_processing_with_leftover" =>
        /\ last.ok
        /\ Len(res) = 4 * last.n
        /\ \A len \in 0..(4 * last.n - 1) :
               \E it \in {leftover_iteration(last.n, len)} :
                   /\ it.res = res[len + 1]
                   /\ it.st.parts[1] = len
                   /\ Len(it.st.parts) = 1 + AdditionalUpdates(last.n, len)
                   /\ Len(it.st.hist) >= len
                   /\ it.res[2] = one_shot(it.st.hist).val
                   /\ it.res[1] = it.res[2]
        /\ last.n >= 2 => \A j \in 0..3 : Exercised(last.n, j)

\* C18 happens: the test ran with a block size of at least 2 and its last
\* iteration, of 4 * blocksize - 1 bytes and three more update calls,
\* compared equal.
C18_Witness ==
    /\ last.op = "incremental_processing_with_leftover"
    /\ last.n >= 2
    /\ last.ok
    /\ Len(res) = 4 * last.n
    /\ parts = <<4 * last.n - 1, 0, Len(Extra), 256>>

\* the six misuse checks
MisuseChecks ==
    <<"double_finalize_with_reset_no_update_ok",
      "double_finalize_with_reset_ok",
      "double_finalize_err",
      "update_after_finalize_with_reset_ok",
      "update_after_finalize_err",
      "double_reset_ok">>

\* the functions of a run, in order, without the lengths of their data
FunctionsRun == [i \in DOMAIN res |-> res[i].fn]

\* C19 as stated: run_all_tests and run_all_tests_with_input both run the
\* consistency check with data and with empty data, produces_same_state,
\* the leftover test with the tester's block size and the six misuse checks.
C19_AsStated ==
    last.op \in {"run_all_tests", "run_all_tests_with_input"} =>
        /\ \E i, j \in DOMAIN res :
               /\ i < j
               /\ res[i].fn = "consistency"
               /\ res[j] = [fn |-> "consistency", n |-> 0]
        /\ \E i \in DOMAIN res : res[i].fn = "produces_same_state"
        /\ \E i \in DOMAIN res :
               res[i] = [fn |-> "incremental_processing_with_leftover",
                         n |-> last.n]
        /\ \A k \in DOMAIN MisuseChecks :
               \E i \in DOMAIN res : res[i].fn = MisuseChecks[k]

\* C19: run_all_tests_with_input runs, in this order, consistency with the
\* given data and with empty data, produces_same_state, the leftover test
\* with the tester's block size and the six misuse checks; run_all_tests
\* runs the same functions on its 53 bytes of default data except the
\* leftover test, which it does not run; both run to their end.
C19_SuiteOfEntryPoints ==
    /\ last.op = "run_all_tests_with_input" =>
           /\ last.ok
           /\ FunctionsRun =
                  <<"consistency", "consistency", "produces_same_state",
                    "incremental_processing_with_leftover">> \o MisuseChecks
           /\ res[2].n = 0
           /\ res[4].n = last.n
           /\ \A i \in DOMAIN res \ {2, 4} : res[i].n = res[1].n
    /\ last.op = "run_all_tests" =>
           /\ last.ok
           /\ FunctionsRun =
                  <<"consistency", "consistency", "produces_same_state">>
                      \o MisuseChecks
           /\ res[2].n = 0
           /\ \A i \in DOMAIN res \ {2} : res[i].n = Len(DefaultData)

\* C19 happens: run_all_tests ran its nine functions to the end.
C19_Witness ==
    /\ last.op = "run_all_tests"
    /\ last.ok
    /\ Len(res) = 9
    /\ ctx.is_finalized = FALSE

----------------------------------------------------------------------------
(* Soundness of the cipher test runner.  The encryptor and decryptor of    *)
(* the model conform to the counter-mode contract.                         *)

\* C20 as stated: for every initial counter and input passed in,
\* StreamCipherTestRunner runs to completion on a conforming pair, without a
\* failed assertion or a panicking unwrap.
C20_AsStated ==
    run.fn = "StreamCipherTestRunner" => run.ok

\* The runner runs to completion whenever the counter does not overflow for
\* the input passed in; when it does, the run ends at the unwrap of the
\* encrypt call that the conforming encryptor rejects.
RunnerPassesUnlessCounterOverflows ==
    run.fn = "StreamCipherTestRunner" =>
        IF Exceeds(run.counter, BlocksRequired(Len(run.input)) - 1)
        THEN /\ ~run.ok
             /\ call.op = "encrypt" /\ ~call.ok
             /\ call.counter = run.counter /\ call.input = run.input
        ELSE run.ok

============================================================================
